---- MODULE Spec2Model ----
(***************************************************************************)
(* PowerPlatform (Dataverse) MCP server: the request dispatcher of         *)
(* powerplatform_mcp_server.py and the service of powerplatform_service.py *)
(* (token cache, gateway, metadata shaping).                               *)
(*                                                                         *)
(* Python values are modelled as follows.  A str is a TLA+ string, a dict  *)
(* is a function whose domain is the set of its keys, a list is a          *)
(* sequence, None is the string None (no modelled str takes that value).   *)
(***************************************************************************)
EXTENDS Integers, Sequences, FiniteSets, TLC

VARIABLES
    POWERPLATFORM_CONFIG,     \* the four configuration fields (module global)
    powerplatform_service,    \* module global: None or the service instance
    access_token,             \* PowerPlatformService.access_token
    token_expiration_time,    \* PowerPlatformService.token_expiration_time
    now,                      \* the wall clock read by datetime.now()
    pc,                       \* position of the server: "read" at readline,
                              \* "await" in a handler, "write" and "except" at
                              \* the two prints of start, "done" after the
                              \* break, "raised" when an exception left start
    request,                  \* the request being handled / last handled
    position,                 \* number of gateway calls the handler completed
    fetched,                  \* documents the handler obtained so far
    calls,                    \* outbound calls issued during this invocation
                              \* (a token acquisition with its answer)
    raised,                   \* message of the exception the handler caught
    reply,                    \* the value handle_request returned last
    last_acquisition,         \* history: when and what the identity provider
                              \* answered to the last accepted acquisition
    stdout,                   \* lines the service printed to sys.stdout since
                              \* the request was read
    constructed,              \* history: how many PowerPlatformService
                              \* instances have been constructed
    method,                   \* shaping check: the service method applied
    provider,                 \* shaping check: the provider's JSON document
    returned                  \* shaping check: what the method returned

vars == <<POWERPLATFORM_CONFIG, powerplatform_service, access_token,
          token_expiration_time, now, pc, request, position, fetched, calls,
          raised, reply, last_acquisition, stdout, constructed, method,
          provider, returned>>

serverVars == <<POWERPLATFORM_CONFIG, powerplatform_service, access_token,
                token_expiration_time, now, pc, request, position, fetched,
                calls, raised, reply, last_acquisition, stdout, constructed>>

shapeVars == <<method, provider, returned>>

None == "None"

(***************************************************************************)
(* Python helpers                                                          *)
(***************************************************************************)
\* str.endswith
endswith(s, suffix) ==
    /\ Len(s) >= Len(suffix)
    /\ SubSeq(s, Len(s) - Len(suffix) + 1, Len(s)) = suffix

\* str.startswith
startswith(s, prefix) ==
    /\ Len(s) >= Len(prefix)
    /\ SubSeq(s, 1, Len(prefix)) = prefix

\* dict.get(key, default)
get(d, key, default) == IF key \in DOMAIN d THEN d[key] ELSE default

\* "key in d" for a dict d
HasKey(d, key) == key \in DOMAIN d

\* truthiness of a dict
Truthy(d) == DOMAIN d # {}

Max(S) == CHOOSE m \in S : \A n \in S : n <= m

(***************************************************************************)
(* PowerPlatformService: metadata shaping (the code that follows           *)
(* make_request in each service method)                                    *)
(***************************************************************************)
\* faulty variant: the Privileges key is not deleted
get_entity_metadata_shape_Faulty(response) == response

\* get_entity_metadata, lines 80-84: del response["Privileges"]
get_entity_metadata_shape(response) ==
    IF Truthy(response) /\ HasKey(response, "Privileges")
    THEN [k \in DOMAIN response \ {"Privileges"} |-> response[k]]
    ELSE response

\* faulty variant: the test looks for the suffix "yomi" instead of "yominame"
IsYomiName_Faulty(attribute) ==
    endswith(get(attribute, "LogicalName", ""), "yomi")

\* first pass, line 99: the test that drops an attribute
IsYomiName(attribute) ==
    endswith(get(attribute, "LogicalName", ""), "yominame")

FirstPass(value) == SelectSeq(value, LAMBDA attribute : ~IsYomiName(attribute))

\* faulty variant: the length test is left out
IsNameCandidate_Faulty(logical_name) == endswith(logical_name, "name")

\* line 109: the attribute is a "...name" candidate
IsNameCandidate(logical_name) ==
    endswith(logical_name, "name") /\ Len(logical_name) > 4

\* line 110: logical_name[:-4]
StripName(logical_name) == SubSeq(logical_name, 1, Len(logical_name) - 4)

\* lines 103-114: the set base_names built by the loop
base_names(value) ==
    { get(value[i], "LogicalName", "") :
        i \in { j \in 1..Len(value) :
                  ~IsNameCandidate(get(value[j], "LogicalName", "")) } }

\* lines 104-111: the dict names_attributes; a later attribute with the same
\* base name overwrites an earlier one
names_attributes(value) ==
    LET cand == { j \in 1..Len(value) :
                    IsNameCandidate(get(value[j], "LogicalName", "")) }
        base(j) == StripName(get(value[j], "LogicalName", ""))
    IN  [ b \in { base(j) : j \in cand } |->
            value[Max({ j \in cand : base(j) = b })] ]

\* faulty variant: every "...name" candidate is removed, with or without an
\* attribute of the base name
attributes_to_remove_Faulty(value) ==
    LET na == names_attributes(value)
    IN  { na[b]["LogicalName"] : b \in DOMAIN na }

\* lines 117-120
attributes_to_remove(value) ==
    LET na == names_attributes(value)
    IN  { na[b]["LogicalName"] : b \in (DOMAIN na) \cap base_names(value) }

\* faulty variant: only the attribute object kept in names_attributes, the
\* last one of its name, is removed
SecondPass_Faulty(value) ==
    LET cand == { j \in 1..Len(value) :
                    IsNameCandidate(get(value[j], "LogicalName", "")) }
        base(j) == StripName(get(value[j], "LogicalName", ""))
        last == { j \in cand :
                    /\ base(j) \in base_names(value)
                    /\ \A k \in cand : base(k) = base(j) => k <= j }
        kept[i \in 0..Len(value)] ==
            IF i = 0 THEN << >>
            ELSE IF i \in last THEN kept[i - 1]
            ELSE Append(kept[i - 1], value[i])
    IN  kept[Len(value)]

\* lines 122-125: attribute.get("LogicalName") not in attributes_to_remove
SecondPass(value) ==
    LET remove == attributes_to_remove(value)
        keep(attribute) == \/ ~HasKey(attribute, "LogicalName")
                           \/ attribute["LogicalName"] \notin remove
    IN  SelectSeq(value, keep)

\* get_entity_attributes, lines 95-127
get_entity_attributes_shape(response) ==
    IF Truthy(response) /\ HasKey(response, "value")
    THEN [response EXCEPT !["value"] = SecondPass(FirstPass(response["value"]))]
    ELSE response

\* faulty variant: only the msdyn_ prefix is tested
IsInternalRelationship_Faulty(relationship) ==
    startswith(get(relationship, "ReferencingEntity", ""), "msdyn_")

\* lines 158-159: the test that drops a one-to-many relationship
IsInternalRelationship(relationship) ==
    \/ startswith(get(relationship, "ReferencingEntity", ""), "msdyn_")
    \/ startswith(get(relationship, "ReferencingEntity", ""), "adx_")

\* faulty variant: the response is returned without the filtering
get_entity_one_to_many_relationships_shape_Faulty(response) == response

\* get_entity_one_to_many_relationships, lines 155-162
get_entity_one_to_many_relationships_shape(response) ==
    IF Truthy(response) /\ HasKey(response, "value")
    THEN [response EXCEPT !["value"] =
            SelectSeq(response["value"],
                      LAMBDA relationship : ~IsInternalRelationship(relationship))]
    ELSE response

\* get_entity_many_to_many_relationships, lines 178-180: no post-processing
get_entity_many_to_many_relationships_shape(response) == response

(***************************************************************************)
(* Requests                                                                *)
(*                                                                         *)
(* A request is [function, id, params, nulls]: params maps each argument   *)
(* given with a value to that value, nulls is the set of arguments given   *)
(* as JSON null.                                                           *)
(***************************************************************************)
\* main(), lines 502-509: the keys of McpServer.handlers
RegisteredFunctions ==
    { "get-entity-metadata", "get-entity-attributes", "get-entity-attribute",
      "get-entity-relationships", "get-global-option-set", "get-record",
      "query-records", "use-powerplatform-prompt" }

\* class PromptType, lines 111-115
PromptType ==
    { "ENTITY_OVERVIEW", "ATTRIBUTE_DETAILS", "QUERY_TEMPLATE",
      "RELATIONSHIP_MAP" }

\* the request model each handler instantiates (first line of each handler)
RequestModel(function) ==
    CASE function \in { "get-entity-metadata", "get-entity-attributes",
                        "get-entity-relationships" } -> "EntityRequest"
      [] function = "get-entity-attribute"     -> "AttributeRequest"
      [] function = "get-global-option-set"    -> "OptionSetRequest"
      [] function = "get-record"               -> "RecordRequest"
      [] function = "query-records"            -> "QueryRequest"
      [] function = "use-powerplatform-prompt" -> "PromptRequest"

\* lines 118-140: the fields of each request model, in declaration order
ModelFields(model) ==
    CASE model = "EntityRequest"    -> << "entityName" >>
      [] model = "AttributeRequest" -> << "entityName", "attributeName" >>
      [] model = "OptionSetRequest" -> << "optionSetName" >>
      [] model = "RecordRequest"    -> << "entityNamePlural", "recordId" >>
      [] model = "QueryRequest"     -> << "entityNamePlural", "filter",
                                          "maxRecords" >>
      [] model = "PromptRequest"    -> << "promptType", "entityName",
                                          "attributeName" >>

\* lines 135 and 140: the fields declared Optional, with their defaults
OptionalFields(model) ==
    CASE model = "QueryRequest"  -> { "maxRecords" }
      [] model = "PromptRequest" -> { "attributeName" }
      [] OTHER                   -> {}

\* the fields pydantic rejects when the model is built from the arguments
InvalidFields(model, req) ==
    LET bad(f) ==
          \/ /\ f \notin OptionalFields(model)
             /\ (f \notin DOMAIN req.params \/ f \in req.nulls)
          \/ /\ f = "promptType"
             /\ f \in DOMAIN req.params
             /\ req.params[f] \notin PromptType
    IN  SelectSeq(ModelFields(model), bad)

RECURSIVE Join(_, _)
\* sep.join(parts)
Join(parts, sep) ==
    IF Len(parts) = 0 THEN ""
    ELSE IF Len(parts) = 1 THEN parts[1]
    ELSE parts[1] \o sep \o Join(Tail(parts), sep)

\* str(e) of the pydantic ValidationError: the model and the rejected fields
ValidationMessage(model, fields) ==
    ToString(Len(fields)) \o " validation error for " \o model \o ": "
        \o Join(fields, ", ")

\* the value of a str field of the validated request object (None for an
\* Optional field that was omitted or given as null)
Field(req, f) ==
    IF f \in DOMAIN req.params /\ f \notin req.nulls THEN req.params[f]
    ELSE None

DefaultMaxRecords == 50

\* str(request.maxRecords): line 135 gives the default to an omitted
\* argument only; an explicit null stays None
MaxRecordsText(req) ==
    IF "maxRecords" \in req.nulls THEN None
    ELSE IF "maxRecords" \in DOMAIN req.params
    THEN ToString(req.params["maxRecords"])
    ELSE ToString(DefaultMaxRecords)

(***************************************************************************)
(* get_powerplatform_service                                               *)
(***************************************************************************)
ConfigFields ==
    << "organization_url", "client_id", "client_secret", "tenant_id" >>

\* faulty variant: client_secret is not checked
missing_config_Faulty(config) ==
    SelectSeq(ConfigFields, LAMBDA f : f # "client_secret" /\ config[f] = "")

\* lines 28-36: the list missing_config
missing_config(config) ==
    SelectSeq(ConfigFields, LAMBDA f : config[f] = "")

\* faulty variant: the service is constructed anew for every invocation
ServiceIsUnset_Faulty(service) == TRUE

\* line 26: "if not powerplatform_service"
ServiceIsUnset(service) == service = None

\* str(e) of the exception msal.ConfidentialClientApplication raises
MsalClientError == "MSAL client could not be created"

\* line 39
MissingConfigMessage(config) ==
    "Missing PowerPlatform configuration: "
        \o Join(missing_config(config), ", ")
        \o ". Set these in environment variables."

(***************************************************************************)
(* PowerPlatformService: token cache and gateway                           *)
(***************************************************************************)
SafetyMargin == 300

\* faulty variant: the safety margin is applied a second time
TokenIsFresh_Faulty(token, expiration, current_time) ==
    token # None /\ expiration - SafetyMargin > current_time

\* line 32: the cached token is served
TokenIsFresh(token, expiration, current_time) ==
    token # None /\ expiration > current_time

\* line 41: the result of acquire_token_for_client is accepted
TokenAcquired(outcome) ==
    /\ ~outcome.raises
    /\ Truthy(outcome.result)
    /\ HasKey(outcome.result, "access_token")

\* faulty variant: the five minutes are not subtracted
NewExpiration_Faulty(result, expiration, current_time) ==
    IF HasKey(result, "expires_in")
    THEN current_time + result["expires_in"]
    ELSE expiration

\* lines 47-48: the expiry stored after a successful acquisition
NewExpiration(result, expiration, current_time) ==
    IF HasKey(result, "expires_in")
    THEN current_time + result["expires_in"] - SafetyMargin
    ELSE expiration

\* faulty variant: a failed acquisition clears the cache
get_access_token_Faulty(token, expiration, current_time, outcome) ==
    IF TokenIsFresh(token, expiration, current_time)
    THEN [access_token |-> token, token_expiration_time |-> expiration,
          returns |-> token, acquired |-> 0]
    ELSE IF TokenAcquired(outcome)
    THEN [access_token |-> outcome.result["access_token"],
          token_expiration_time |->
              NewExpiration(outcome.result, expiration, current_time),
          returns |-> outcome.result["access_token"], acquired |-> 1]
    ELSE [access_token |-> None, token_expiration_time |-> 0,
          returns |-> None, acquired |-> 1]

\* lines 27-53, as a function of the cache, the clock and what the
\* collaborator does: the new cache, the token returned (None when the call
\* raised) and whether the collaborator was called
get_access_token(token, expiration, current_time, outcome) ==
    IF TokenIsFresh(token, expiration, current_time)
    THEN [access_token |-> token, token_expiration_time |-> expiration,
          returns |-> token, acquired |-> 0]
    ELSE IF TokenAcquired(outcome)
    THEN [access_token |-> outcome.result["access_token"],
          token_expiration_time |->
              NewExpiration(outcome.result, expiration, current_time),
          returns |-> outcome.result["access_token"], acquired |-> 1]
    ELSE [access_token |-> token, token_expiration_time |-> expiration,
          returns |-> None, acquired |-> 1]

\* make_request, lines 72-74: every failure is re-raised with this prefix
RequestFailed(message) == "PowerPlatform API request failed: " \o message

\* faulty variant: the request is sent without the bearer token
Headers_Faulty(token) ==
    [ Accept |-> "application/json", ODataMaxVersion |-> "4.0",
      ODataVersion |-> "4.0" ]

\* make_request, lines 62-67: the headers of the GET (ODataMaxVersion and
\* ODataVersion stand for OData-MaxVersion and OData-Version)
Headers(token) ==
    [ Authorization |-> "Bearer " \o token, Accept |-> "application/json",
      ODataMaxVersion |-> "4.0", ODataVersion |-> "4.0" ]

\* the message get_access_token raises with, line 53
AuthenticationFailed == "Authentication failed"

\* line 52: what get_access_token prints (to sys.stdout) when the
\* acquisition raised or was not accepted
AcquisitionError(outcome) ==
    "Error acquiring access token: "
        \o (IF outcome.raises THEN "MSAL error"
            ELSE "Failed to acquire access token")

(***************************************************************************)
(* PowerPlatformService: the endpoint each method requests                 *)
(***************************************************************************)
\* characters urllib.parse.quote leaves alone (its default safe is "/")
QuoteSafe ==
    { "a", "b", "c", "d", "e", "f", "g", "h", "i", "j", "k", "l", "m", "n",
      "o", "p", "q", "r", "s", "t", "u", "v", "w", "x", "y", "z",
      "A", "B", "C", "D", "E", "F", "G", "H", "I", "J", "K", "L", "M", "N",
      "O", "P", "Q", "R", "S", "T", "U", "V", "W", "X", "Y", "Z",
      "0", "1", "2", "3", "4", "5", "6", "7", "8", "9",
      "_", ".", "-", "~", "/" }

\* faulty variant: the form encoding, which writes a space as +
PercentEscape_Faulty(c) == IF c = " " THEN "+" ELSE c

\* the escape urllib.parse.quote writes for the other characters used here
PercentEscape(c) ==
    CASE c = " " -> "%20"
      [] c = "'" -> "%27"
      [] c = "(" -> "%28"
      [] c = ")" -> "%29"
      [] c = "," -> "%2C"
      [] c = "=" -> "%3D"
      [] c = "&" -> "%26"
      [] c = "$" -> "%24"
      [] c = "{" -> "%7B"
      [] c = "}" -> "%7D"

RECURSIVE quote(_)
\* urllib.parse.quote, called at line 207
quote(s) ==
    IF Len(s) = 0 THEN ""
    ELSE LET c == SubSeq(s, 1, 1)
         IN  (IF c \in QuoteSafe THEN c ELSE PercentEscape(c))
                \o quote(SubSeq(s, 2, Len(s)))

OneToManySelect ==
    "SchemaName,RelationshipType,ReferencedAttribute,ReferencedEntity,ReferencingAttribute,ReferencingEntity,ReferencedEntityNavigationPropertyName,ReferencingEntityNavigationPropertyName"

ManyToManySelect ==
    "SchemaName,RelationshipType,Entity1LogicalName,Entity2LogicalName,Entity1IntersectAttribute,Entity2IntersectAttribute,Entity1NavigationPropertyName,Entity2NavigationPropertyName"

EntityDefinition(entity_name) ==
    "api/data/v9.2/EntityDefinitions(LogicalName='" \o entity_name \o "')"

\* the endpoint string each service method passes to make_request
Endpoint(service_method, req) ==
    CASE service_method = "get_entity_metadata" ->
            EntityDefinition(Field(req, "entityName"))
      [] service_method = "get_entity_attributes" ->
            EntityDefinition(Field(req, "entityName"))
              \o "/Attributes?$select=LogicalName&$filter=AttributeType ne 'Virtual'"
      [] service_method = "get_entity_attribute" ->
            EntityDefinition(Field(req, "entityName"))
              \o "/Attributes(LogicalName='" \o Field(req, "attributeName") \o "')"
      [] service_method = "get_entity_one_to_many_relationships" ->
            EntityDefinition(Field(req, "entityName"))
              \o "/OneToManyRelationships?$select=" \o OneToManySelect
              \o "&$filter=ReferencingAttribute ne 'regardingobjectid'"
      [] service_method = "get_entity_many_to_many_relationships" ->
            EntityDefinition(Field(req, "entityName"))
              \o "/ManyToManyRelationships?$select=" \o ManyToManySelect
      [] service_method = "get_global_option_set" ->
            "api/data/v9.2/GlobalOptionSetDefinitions(Name='"
              \o Field(req, "optionSetName") \o "')"
      [] service_method = "get_record" ->
            "api/data/v9.2/" \o Field(req, "entityNamePlural")
              \o "(" \o Field(req, "recordId") \o ")"
      [] service_method = "query_records" ->
            "api/data/v9.2/" \o Field(req, "entityNamePlural")
              \o "?$filter=" \o quote(Field(req, "filter"))
              \o "&$top=" \o MaxRecordsText(req)

\* what each service method does with the document make_request returned
Shape(service_method, response) ==
    CASE service_method = "get_entity_metadata" ->
            get_entity_metadata_shape(response)
      [] service_method = "get_entity_attributes" ->
            get_entity_attributes_shape(response)
      [] service_method = "get_entity_one_to_many_relationships" ->
            get_entity_one_to_many_relationships_shape(response)
      [] service_method = "get_entity_many_to_many_relationships" ->
            get_entity_many_to_many_relationships_shape(response)
      [] OTHER -> response

\* faulty variant: every handler fetches the attributes, then the metadata
Plan_Faulty(req) == << "get_entity_attributes", "get_entity_metadata" >>

\* the service methods a handler awaits, in order; get_entity_relationships
\* (lines 182-190) is its two fetches
Plan(req) ==
    CASE req.function = "get-entity-metadata" -> << "get_entity_metadata" >>
      [] req.function = "get-entity-attributes" -> << "get_entity_attributes" >>
      [] req.function = "get-entity-attribute" -> << "get_entity_attribute" >>
      [] req.function = "get-entity-relationships" ->
            << "get_entity_one_to_many_relationships",
               "get_entity_many_to_many_relationships" >>
      [] req.function = "get-global-option-set" -> << "get_global_option_set" >>
      [] req.function = "get-record" -> << "get_record" >>
      [] req.function = "query-records" -> << "query_records" >>
      [] req.function = "use-powerplatform-prompt" ->
            CASE Field(req, "promptType") = "ENTITY_OVERVIEW" ->
                    << "get_entity_metadata", "get_entity_attributes",
                       "get_entity_one_to_many_relationships",
                       "get_entity_many_to_many_relationships" >>
              [] Field(req, "promptType") = "ATTRIBUTE_DETAILS" ->
                    << "get_entity_attribute" >>
              [] Field(req, "promptType") = "QUERY_TEMPLATE" ->
                    << "get_entity_metadata", "get_entity_attributes" >>
              [] Field(req, "promptType") = "RELATIONSHIP_MAP" ->
                    << "get_entity_one_to_many_relationships",
                       "get_entity_many_to_many_relationships" >>

(***************************************************************************)
(* Prompt templates and the values the prompt handler computes             *)
(*                                                                         *)
(* A computed value is [ok |-> TRUE, value |-> str], or                    *)
(* [ok |-> FALSE, message |-> str(e)] when computing it raises.            *)
(***************************************************************************)
EmptyDict == [k \in {} |-> ""]

\* a JSON null standing where the code expects a dict
JsonNull == [null |-> TRUE]

Value(v) == [ok |-> TRUE, value |-> v]

Raise(message) == [ok |-> FALSE, message |-> message]

NoneHasNoGet == "'NoneType' object has no attribute 'get'"

\* doc.get(key, {}).get('UserLocalizedLabel', {}).get('Label', default)
Label(doc, key, default) ==
    LET outer == get(doc, key, EmptyDict)
    IN  IF outer = JsonNull THEN Raise(NoneHasNoGet)
        ELSE LET inner == get(outer, "UserLocalizedLabel", EmptyDict)
             IN  IF inner = JsonNull THEN Raise(NoneHasNoGet)
                 ELSE Value(get(inner, "Label", default))

\* attribute.get('RequiredLevel', {}).get('Value', 'No')
RequiredLevel(attribute) ==
    LET level == get(attribute, "RequiredLevel", EmptyDict)
    IN  IF level = JsonNull THEN Raise(NoneHasNoGet)
        ELSE Value(get(level, "Value", "No"))

\* str.find(sub) + 1: the position of the first occurrence, 0 when none
find(s, sub) ==
    LET at == { i \in 1..(Len(s) - Len(sub) + 1) :
                  SubSeq(s, i, i + Len(sub) - 1) = sub }
    IN  IF at = {} THEN 0 ELSE CHOOSE i \in at : \A j \in at : i <= j

RECURSIVE replace(_, _, _)
\* str.replace(old, new) for a non-empty old: every occurrence, left to right
replace(s, old, new) ==
    LET i == find(s, old)
    IN  IF i = 0 THEN s
        ELSE SubSeq(s, 1, i - 1) \o new
                \o replace(SubSeq(s, i + Len(old), Len(s)), old, new)

RECURSIVE ReplaceAll(_, _)
\* lines 476-477: the loop over replacements.items(), in insertion order;
\* replacements is a sequence of <<placeholder, value>>
ReplaceAll(prompt_content, replacements) ==
    IF Len(replacements) = 0 THEN prompt_content
    ELSE ReplaceAll(replace(prompt_content, replacements[1][1],
                            replacements[1][2]),
                    Tail(replacements))

\* [f(x) for x in list]
Map(list, f(_)) == [i \in 1..Len(list) |-> f(list[i])]

\* lines 49-58; the doubled braces of the f-string give single braces
entity_overview(entity_name) ==
    "## Power Platform Entity: " \o entity_name \o "\n\n"
    \o "This is an overview of the '" \o entity_name
    \o "' entity in Microsoft Power Platform/Dataverse:\n\n"
    \o "### Entity Details\n{entity_details}\n\n"
    \o "### Attributes\n{key_attributes}\n\n"
    \o "### Relationships\n{relationships}\n\n"
    \o "You can query this entity using OData filters against the plural name."

\* lines 60-70
attribute_details(entity_name, attribute_name) ==
    "## Attribute: " \o attribute_name \o "\n\n"
    \o "Details for the '" \o attribute_name \o "' attribute of the '"
    \o entity_name \o "' entity:\n\n"
    \o "{attribute_details}\n\n"
    \o "### Usage Notes\n"
    \o "- Data Type: {data_type}\n"
    \o "- Required: {required}\n"
    \o "- Max Length: {max_length}"

\* lines 72-83; the backquotes of the source are written as quotes
query_template(entity_name_plural) ==
    "## OData Query Template for " \o entity_name_plural \o "\n\n"
    \o "Use this template to build queries against the " \o entity_name_plural
    \o " entity:\n\n"
    \o "'''\n" \o entity_name_plural
    \o "?$select={selected_fields}&$filter={filter_conditions}&$orderby={order_by}&$top={max_records}\n'''\n\n"
    \o "### Common Filter Examples\n"
    \o "- Equals: 'name eq 'Contoso''\n"
    \o "- Contains: 'contains(name, 'Contoso')'\n"
    \o "- Greater than date: 'createdon gt 2023-01-01T00:00:00Z'\n"
    \o "- Multiple conditions: 'name eq 'Contoso' and statecode eq 0'"

\* lines 85-93
relationship_map(entity_name) ==
    "## Relationship Map for " \o entity_name \o "\n\n"
    \o "This shows all relationships for the '" \o entity_name
    \o "' entity:\n\n"
    \o "### One-to-Many Relationships (" \o entity_name
    \o " as Primary)\n{one_to_many_primary}\n\n"
    \o "### One-to-Many Relationships (" \o entity_name
    \o " as Related)\n{one_to_many_related}\n\n"
    \o "### Many-to-Many Relationships\n{many_to_many}\n\n"

\* lines 368-374
entity_details(metadata, entity_name) ==
    LET display == Label(metadata, "DisplayName", entity_name)
        description == Label(metadata, "Description", "No description")
    IN  IF ~display.ok THEN display
        ELSE IF ~description.ok THEN description
        ELSE Value("- Display Name: " \o display.value \o "\n"
                \o "- Schema Name: " \o get(metadata, "SchemaName", None) \o "\n"
                \o "- Description: " \o description.value \o "\n"
                \o "- Primary Key: "
                \o get(metadata, "PrimaryIdAttribute", None) \o "\n"
                \o "- Primary Name: "
                \o get(metadata, "PrimaryNameAttribute", None))

\* lines 377-380
key_attributes(attributes) ==
    LET line(attr) == "- " \o get(attr, "LogicalName", None) \o ": "
                        \o get(attr, "@odata.type", "Unknown type")
    IN  Join(Map(get(attributes, "value", <<>>), line), "\n")

\* lines 383-390
relationships_summary(one_to_many, many_to_many) ==
    "- One-to-Many Relationships: "
    \o ToString(Len(get(one_to_many, "value", <<>>))) \o "\n"
    \o "- Many-to-Many Relationships: "
    \o ToString(Len(get(many_to_many, "value", <<>>)))

\* lines 407-414
attr_details(attribute, attribute_name) ==
    LET display == Label(attribute, "DisplayName", attribute_name)
        description == Label(attribute, "Description", "No description")
        required == RequiredLevel(attribute)
    IN  IF ~display.ok THEN display
        ELSE IF ~description.ok THEN description
        ELSE IF ~required.ok THEN required
        ELSE Value("- Display Name: " \o display.value \o "\n"
                \o "- Description: " \o description.value \o "\n"
                \o "- Type: " \o get(attribute, "AttributeType", None) \o "\n"
                \o "- Format: " \o get(attribute, "Format", "N/A") \o "\n"
                \o "- Is Required: " \o required.value \o "\n"
                \o "- Is Searchable: "
                \o get(attribute, "IsValidForAdvancedFind", "False"))

\* line 421: str(attribute.get('MaxLength', 'N/A'))
max_length(attribute) ==
    IF HasKey(attribute, "MaxLength") THEN ToString(attribute["MaxLength"])
    ELSE "N/A"

\* lines 449-453; the arrow of the source is written ->
one_to_many_primary(one_to_many, entity_name) ==
    LET line(rel) == "- " \o get(rel, "SchemaName", None) \o ": "
                        \o entity_name \o " (1) -> "
                        \o get(rel, "ReferencingEntity", None) \o " (N)"
        rels == SelectSeq(get(one_to_many, "value", <<>>),
                    LAMBDA rel : get(rel, "ReferencingEntity", None) # entity_name)
        text == Join(Map(rels, line), "\n")
    IN  IF text = "" THEN "None found" ELSE text

\* lines 456-460
one_to_many_related(one_to_many, entity_name) ==
    LET line(rel) == "- " \o get(rel, "SchemaName", None) \o ": "
                        \o get(rel, "ReferencedEntity", None) \o " (1) -> "
                        \o entity_name \o " (N)"
        rels == SelectSeq(get(one_to_many, "value", <<>>),
                    LAMBDA rel : get(rel, "ReferencingEntity", None) = entity_name)
        text == Join(Map(rels, line), "\n")
    IN  IF text = "" THEN "None found" ELSE text

\* lines 463-466; the double arrow of the source is written <->
many_to_many_lines(many_to_many, entity_name) ==
    LET other(rel) == IF get(rel, "Entity1LogicalName", None) # entity_name
                      THEN get(rel, "Entity1LogicalName", None)
                      ELSE get(rel, "Entity2LogicalName", None)
        line(rel) == "- " \o get(rel, "SchemaName", None) \o ": "
                        \o entity_name \o " (N) <-> " \o other(rel) \o " (N)"
        text == Join(Map(get(many_to_many, "value", <<>>), line), "\n")
    IN  IF text = "" THEN "None found" ELSE text

\* str.replace and str.join reject None
NotStr == "expected str instance, NoneType found"

\* lines 431-434: ",".join of the first five logical names
select_fields(attributes) ==
    LET value == get(attributes, "value", <<>>)
        first == SubSeq(value, 1, IF Len(value) < 5 THEN Len(value) ELSE 5)
        names == Map(first, LAMBDA attr : get(attr, "LogicalName", None))
    IN  IF \E i \in 1..Len(names) : names[i] = None THEN Raise(NotStr)
        ELSE Value(Join(names, ","))

(***************************************************************************)
(* Handlers: what each handler returns                                     *)
(*                                                                         *)
(* The text of a content item is [str |-> the literal text] and, where the *)
(* handler appends json.dumps(document, indent=2), dumps |-> the document. *)
(***************************************************************************)
\* the literal each handler writes before str(e) in its except block
FailurePrefix(function) ==
    CASE function = "get-entity-metadata" -> "Failed to get entity metadata: "
      [] function = "get-entity-attributes" -> "Failed to get entity attributes: "
      [] function = "get-entity-attribute" -> "Failed to get entity attribute: "
      [] function = "get-entity-relationships" ->
            "Failed to get entity relationships: "
      [] function = "get-global-option-set" -> "Failed to get global option set: "
      [] function = "get-record" -> "Failed to get record: "
      [] function = "query-records" -> "Failed to query records: "
      [] function = "use-powerplatform-prompt" ->
            "Failed to use PowerPlatform prompt: "

\* faulty variant: the text is returned as two content items
TextResult_Faulty(text) ==
    [content |-> << [type |-> "text", text |-> text],
                    [type |-> "text", text |-> text] >>]

\* the dict every handler returns, on success and in its except block
TextResult(text) == [content |-> << [type |-> "text", text |-> text] >>]

\* faulty variant: every response carries the id 1
Response_Faulty(req, result) == [ id |-> 1, result |-> result ]

\* line 160: what handle_request returns when the handler returned
Response(req, result) == [ id |-> req.id, result |-> result ]

\* line 162: what handle_request returns when an exception reached it
ErrorResponse(message) == [ error |-> message ]

\* str(e) of the exception json.loads raises for a line that is not JSON
JsonDecodeError == "Expecting value: line 1 column 1 (char 0)"

\* str(e) of the exception print raises when the output is closed
BrokenPipe == "[Errno 32] Broken pipe"

\* line 174: what start prints when an exception reached its except block
ServerError(message) == [ error |-> "Server error: " \o message ]

\* faulty variant: the unknown function is reported as a result text
UnknownFunction_Faulty(req) ==
    [ id |-> req.id,
      result |-> TextResult([ str |-> "Unknown function: " \o req.function ]) ]

\* line 157: what handle_request returns for a function without a handler
UnknownFunction(req) == [ error |-> "Unknown function: " \o req.function ]

\* lines 362-397, once the four documents are there
RenderEntityOverview(req, docs) ==
    LET entity_name == Field(req, "entityName")
        details == entity_details(docs[1], entity_name)
    IN  IF ~details.ok THEN details
        ELSE Value(ReplaceAll(entity_overview(entity_name),
                << << "{{entity_details}}", details.value >>,
                   << "{{key_attributes}}", key_attributes(docs[2]) >>,
                   << "{{relationships}}",
                      relationships_summary(docs[3], docs[4]) >> >>))

\* lines 403-422
RenderAttributeDetails(req, docs) ==
    LET entity_name == Field(req, "entityName")
        attribute_name == Field(req, "attributeName")
        attribute == docs[1]
        details == attr_details(attribute, attribute_name)
        data_type == get(attribute, "AttributeType", "Unknown")
        required == RequiredLevel(attribute)
    IN  IF ~details.ok THEN details
        ELSE IF data_type = None \/ required.value = None THEN Raise(NotStr)
        ELSE Value(ReplaceAll(attribute_details(entity_name, attribute_name),
                << << "{{attribute_details}}", details.value >>,
                   << "{{data_type}}", data_type >>,
                   << "{{required}}", required.value >>,
                   << "{{max_length}}", max_length(attribute) >> >>))

\* lines 426-442
RenderQueryTemplate(req, docs) ==
    LET metadata == docs[1]
        entity_name_plural == get(metadata, "EntitySetName", None)
        fields == select_fields(docs[2])
        primary == get(metadata, "PrimaryNameAttribute", None)
    IN  IF ~fields.ok THEN fields
        ELSE Value(ReplaceAll(query_template(entity_name_plural),
                << << "{{selected_fields}}", fields.value >>,
                   << "{{filter_conditions}}", primary \o " eq 'Example'" >>,
                   << "{{order_by}}", primary \o " asc" >>,
                   << "{{max_records}}", "50" >> >>))

\* lines 446-473
RenderRelationshipMap(req, docs) ==
    LET entity_name == Field(req, "entityName")
    IN  Value(ReplaceAll(relationship_map(entity_name),
            << << "{{one_to_many_primary}}",
                  one_to_many_primary(docs[1], entity_name) >>,
               << "{{one_to_many_related}}",
                  one_to_many_related(docs[1], entity_name) >>,
               << "{{many_to_many}}",
                  many_to_many_lines(docs[2], entity_name) >> >>))

\* what the try block of a handler evaluates to once every service call of
\* its plan has returned: the text, or the exception raised while formatting
HandlerText(req, docs) ==
    CASE req.function = "get-entity-metadata" ->
            Value([str |-> "Entity metadata for '" \o Field(req, "entityName")
                            \o "':\n\n",
                   dumps |-> docs[1]])
      [] req.function = "get-entity-attributes" ->
            Value([str |-> "Attributes for entity '" \o Field(req, "entityName")
                            \o "':\n\n",
                   dumps |-> docs[1]])
      [] req.function = "get-entity-attribute" ->
            Value([str |-> "Attribute '" \o Field(req, "attributeName")
                            \o "' for entity '" \o Field(req, "entityName")
                            \o "':\n\n",
                   dumps |-> docs[1]])
      [] req.function = "get-entity-relationships" ->
            Value([str |-> "Relationships for entity '"
                            \o Field(req, "entityName") \o "':\n\n",
                   dumps |-> [oneToMany |-> docs[1], manyToMany |-> docs[2]]])
      [] req.function = "get-global-option-set" ->
            Value([str |-> "Global option set '" \o Field(req, "optionSetName")
                            \o "':\n\n",
                   dumps |-> docs[1]])
      [] req.function = "get-record" ->
            Value([str |-> "Record from '" \o Field(req, "entityNamePlural")
                            \o "' with ID '" \o Field(req, "recordId")
                            \o "':\n\n",
                   dumps |-> docs[1]])
      [] req.function = "query-records" ->
            Value([str |-> "Retrieved "
                            \o ToString(Len(get(docs[1], "value", <<>>)))
                            \o " records from '"
                            \o Field(req, "entityNamePlural")
                            \o "' with filter '" \o Field(req, "filter")
                            \o "':\n\n",
                   dumps |-> docs[1]])
      [] req.function = "use-powerplatform-prompt" ->
            LET rendered ==
                  CASE Field(req, "promptType") = "ENTITY_OVERVIEW" ->
                          RenderEntityOverview(req, docs)
                    [] Field(req, "promptType") = "ATTRIBUTE_DETAILS" ->
                          RenderAttributeDetails(req, docs)
                    [] Field(req, "promptType") = "QUERY_TEMPLATE" ->
                          RenderQueryTemplate(req, docs)
                    [] Field(req, "promptType") = "RELATIONSHIP_MAP" ->
                          RenderRelationshipMap(req, docs)
            IN  IF rendered.ok THEN Value([str |-> rendered.value])
                ELSE rendered

\* lines 368-374 run between the second and the third service call of
\* ENTITY_OVERVIEW: the exception they raise there, if any
RaisedMidway(req, docs) ==
    IF /\ req.function = "use-powerplatform-prompt"
       /\ Field(req, "promptType") = "ENTITY_OVERVIEW"
       /\ Len(docs) = 2
    THEN entity_details(docs[1], Field(req, "entityName"))
    ELSE Value("")

\* lines 400-401: the check at the head of the ATTRIBUTE_DETAILS branch
AttributeNameMissing(req) ==
    /\ req.function = "use-powerplatform-prompt"
    /\ Field(req, "promptType") = "ATTRIBUTE_DETAILS"
    /\ Field(req, "attributeName") \in { None, "" }

AttributeNameRequired == "attributeName is required for ATTRIBUTE_DETAILS prompt"

(***************************************************************************)
(* The environment: requests, the clock, the identity provider, Dataverse  *)
(***************************************************************************)
OrganizationUrl == "https://org.crm.dynamics.com"

\* each environment variable is unset (the default "" of lines 14-17) or set
Configs ==
    [ organization_url : { "", OrganizationUrl },
      client_id        : { "", "client-id" },
      client_secret    : { "", "client-secret" },
      tenant_id        : { "", "tenant-id" } ]

ArgumentValue(field, prompt_type) ==
    CASE field = "entityName"       -> "account"
      [] field = "attributeName"    -> "name"
      [] field = "optionSetName"    -> "statuscode"
      [] field = "entityNamePlural" -> "accounts"
      [] field = "recordId"         -> "0001"
      [] field = "filter"           -> "name eq 'Contoso'"
      [] field = "maxRecords"       -> 5
      [] field = "promptType"       -> prompt_type

Range(seq) == { seq[i] : i \in 1..Len(seq) }

\* every request for a registered function: each argument present or absent,
\* promptType possibly outside the enum, maxRecords possibly null
RequestsFor(function) ==
    LET fields == Range(ModelFields(RequestModel(function)))
    IN  { [ function |-> function, id |-> 1,
            params |-> [ f \in given |-> ArgumentValue(f, prompt_type) ],
            nulls |-> nulls ] :
          given \in SUBSET fields,
          prompt_type \in PromptType \cup { "BOGUS" },
          nulls \in SUBSET { "maxRecords" } }

Requests ==
    { req \in UNION { RequestsFor(function) : function \in RegisteredFunctions } :
        req.nulls \subseteq DOMAIN req.params }
    \cup { [ function |-> "delete-record", id |-> 1,
             params |-> [ f \in { "entityName" } |-> "account" ],
             nulls |-> {} ],
           [ function |-> "get-global-option-set", id |-> 2,
             params |-> [ f \in { "optionSetName" } |-> "statuscode" ],
             nulls |-> {} ] }

\* a line json.loads rejects, or whose value has no get: it has no function,
\* no id and no arguments
MalformedLine ==
    [ function |-> "", id |-> 0, params |-> EmptyDict, nulls |-> {} ]

NoRequest == [ function |-> None, id |-> 0, params |-> EmptyDict, nulls |-> {} ]

NoReply == [ nothing |-> TRUE ]

\* the instants at which the clock is read
Times == { 0, 299, 300, 301 }

\* the access token the identity provider issues at an instant
TokenIssuedAt(t) == "token@" \o ToString(t)

ExpiresIn == { 300, 600 }

\* what acquire_token_for_client does: it raises, or returns an empty
\* result, an error document, or a token with or without expires_in
AcquireOutcomes(t) ==
    { [ raises |-> TRUE, result |-> EmptyDict ] }
    \cup { [ raises |-> FALSE, result |-> r ] :
            r \in { EmptyDict,
                    [ error |-> "invalid_client" ],
                    [ access_token |-> TokenIssuedAt(t) ] }
                  \cup { [ access_token |-> TokenIssuedAt(t), expires_in |-> e ] :
                            e \in ExpiresIn } }

\* documents Dataverse answers with, per service method
Samples(service_method) ==
    CASE service_method = "get_entity_metadata" ->
            { [ LogicalName |-> "account", SchemaName |-> "Account",
                EntitySetName |-> "accounts",
                PrimaryIdAttribute |-> "accountid",
                PrimaryNameAttribute |-> "name",
                DisplayName |-> [ UserLocalizedLabel |-> [ Label |-> "Account" ] ],
                Privileges |-> << [ Name |-> "prvReadAccount" ] >> ],
              [ LogicalName |-> "account",
                Description |-> [ UserLocalizedLabel |-> JsonNull ] ] }
      [] service_method = "get_entity_attributes" ->
            { [ value |-> << [ LogicalName |-> "owner" ],
                             [ LogicalName |-> "ownername" ],
                             [ LogicalName |-> "owneryominame" ] >> ],
              [ error |-> "no value" ] }
      [] service_method = "get_entity_attribute" ->
            { [ LogicalName |-> "name", AttributeType |-> "String",
                RequiredLevel |-> [ Value |-> "ApplicationRequired" ],
                MaxLength |-> 160 ],
              [ LogicalName |-> "name", AttributeType |-> None ] }
      [] service_method = "get_entity_one_to_many_relationships" ->
            { [ value |-> << [ SchemaName |-> "account_tasks",
                               ReferencedEntity |-> "account",
                               ReferencingEntity |-> "task" ],
                             [ SchemaName |-> "msdyn_account_x",
                               ReferencedEntity |-> "account",
                               ReferencingEntity |-> "msdyn_x" ] >> ],
              [ error |-> "no value" ] }
      [] service_method = "get_entity_many_to_many_relationships" ->
            { [ value |-> << [ SchemaName |-> "accountleads",
                               Entity1LogicalName |-> "account",
                               Entity2LogicalName |-> "lead" ] >> ],
              [ error |-> "no value" ] }
      [] service_method = "get_global_option_set" ->
            { [ Name |-> "statuscode" ] }
      [] service_method = "get_record" ->
            { [ accountid |-> "0001", name |-> "Contoso" ] }
      [] service_method = "query_records" ->
            { [ value |-> << [ name |-> "Contoso" ], [ name |-> "Contoso" ] >> ],
              [ error |-> "no value" ] }

\* what requests.get, raise_for_status and response.json do
HttpOutcomes(service_method) ==
    { [ ok |-> TRUE, json |-> d, error |-> "" ] : d \in Samples(service_method) }
    \cup { [ ok |-> FALSE, json |-> EmptyDict, error |-> e ] :
            e \in { "404 Client Error: Not Found", "Connection refused" } }

ServiceMethods ==
    { "get_entity_metadata", "get_entity_attributes", "get_entity_attribute",
      "get_entity_one_to_many_relationships",
      "get_entity_many_to_many_relationships", "get_global_option_set",
      "get_record", "query_records" }

(***************************************************************************)
(* The server                                                              *)
(***************************************************************************)
IdleShape == /\ method = None /\ provider = EmptyDict /\ returned = EmptyDict

Init ==
    /\ POWERPLATFORM_CONFIG \in Configs
    /\ powerplatform_service = None
    /\ access_token = None
    /\ token_expiration_time = 0
    /\ now = 0
    /\ pc = "read"
    /\ request = NoRequest
    /\ position = 0
    /\ fetched = << >>
    /\ calls = << >>
    /\ raised = None
    /\ reply = NoReply
    /\ last_acquisition = [ at |-> 0, result |-> EmptyDict ]
    /\ stdout = << >>
    /\ constructed = 0
    /\ IdleShape

\* time passes between two requests and while a handler awaits
Tick ==
    /\ pc \in { "read", "await" }
    /\ \E t \in Times : t > now /\ now' = t
    /\ UNCHANGED << POWERPLATFORM_CONFIG, powerplatform_service, access_token,
                    token_expiration_time, pc, request, position, fetched,
                    calls, raised, reply, last_acquisition, stdout,
                    constructed, shapeVars >>

\* the handler's except block: the exception becomes the text of a result
Fail(req, message) ==
    /\ raised' = message
    /\ reply' = Response(req, TextResult([ str |-> FailurePrefix(req.function)
                                                      \o message ]))
    /\ pc' = "write"
    /\ position' = 0
    /\ fetched' = << >>

\* handle_request (lines 150-162) up to the handler's first service call:
\* dispatch, the request model, get_powerplatform_service (lines 24-45) and
\* PowerPlatformService.__init__ (lines 15-25), whose MSAL client may raise
HandleRequest(req, constructs) ==
    /\ pc = "read"
    /\ request' = req
    /\ calls' = << >>
    /\ stdout' = << >>
    /\ UNCHANGED << POWERPLATFORM_CONFIG, now, last_acquisition, shapeVars >>
    /\ IF req.function \notin RegisteredFunctions
       THEN /\ reply' = UnknownFunction(req)
            /\ raised' = None
            /\ pc' = "write"
            /\ UNCHANGED << position, fetched >>
            /\ UNCHANGED << powerplatform_service, access_token,
                            token_expiration_time, constructed >>
       ELSE LET model == RequestModel(req.function)
                invalid == InvalidFields(model, req)
            IN  IF Len(invalid) > 0
                THEN /\ Fail(req, ValidationMessage(model, invalid))
                     /\ UNCHANGED << powerplatform_service, access_token,
                                     token_expiration_time, constructed >>
                ELSE IF /\ ServiceIsUnset(powerplatform_service)
                        /\ Len(missing_config(POWERPLATFORM_CONFIG)) > 0
                THEN /\ Fail(req, MissingConfigMessage(POWERPLATFORM_CONFIG))
                     /\ UNCHANGED << powerplatform_service, access_token,
                                     token_expiration_time, constructed >>
                ELSE IF ServiceIsUnset(powerplatform_service) /\ ~constructs
                THEN /\ Fail(req, MsalClientError)
                     /\ UNCHANGED << powerplatform_service, access_token,
                                     token_expiration_time, constructed >>
                ELSE /\ powerplatform_service' = "PowerPlatformService"
                     /\ IF ServiceIsUnset(powerplatform_service)
                        THEN /\ access_token' = None
                             /\ token_expiration_time' = 0
                             /\ constructed' = constructed + 1
                        ELSE UNCHANGED << access_token, token_expiration_time,
                                          constructed >>
                     /\ IF AttributeNameMissing(req)
                        THEN Fail(req, AttributeNameRequired)
                        ELSE /\ pc' = "await"
                             /\ raised' = None
                             /\ UNCHANGED << position, fetched, reply >>

\* one awaited service method: make_request (lines 55-74) with its
\* get_access_token (lines 27-53), the method's own post-processing, and the
\* handler code up to its next await or its return
ServiceCall(outcome, http) ==
    /\ pc = "await"
    /\ TokenIsFresh(access_token, token_expiration_time, now)
            => outcome = [ raises |-> TRUE, result |-> EmptyDict ]
    /\ LET service_method == Plan(request)[position + 1]
           tk == get_access_token(access_token, token_expiration_time, now,
                                  outcome)
           acquire == [ call |-> "acquire_token_for_client",
                        scopes |-> << POWERPLATFORM_CONFIG.organization_url
                                        \o "/.default" >>,
                        answer |-> outcome ]
           http_get == [ call |-> "GET",
                         url |-> POWERPLATFORM_CONFIG.organization_url \o "/"
                                   \o Endpoint(service_method, request),
                         token |-> tk.returns,
                         headers |-> Headers(tk.returns),
                         status |-> IF http.ok THEN "200" ELSE http.error,
                         json |-> http.json ]
           docs == Append(fetched, Shape(service_method, http.json))
       IN  /\ access_token' = tk.access_token
           /\ token_expiration_time' = tk.token_expiration_time
           /\ last_acquisition' =
                IF tk.acquired = 1 /\ tk.returns # None
                THEN [ at |-> now, result |-> outcome.result ]
                ELSE last_acquisition
           /\ calls' = calls
                \o (IF tk.acquired = 1 THEN << acquire >> ELSE << >>)
                \o (IF tk.returns # None THEN << http_get >> ELSE << >>)
           /\ stdout' = stdout
                \o (IF tk.returns = None
                    THEN << AcquisitionError(outcome),
                            RequestFailed(AuthenticationFailed) >>
                    ELSE IF ~http.ok THEN << RequestFailed(http.error) >>
                    ELSE << >>)
           /\ IF tk.returns = None
              THEN Fail(request, RequestFailed(AuthenticationFailed))
              ELSE IF ~http.ok
              THEN Fail(request, RequestFailed(http.error))
              ELSE IF ~RaisedMidway(request, docs).ok
              THEN Fail(request, RaisedMidway(request, docs).message)
              ELSE IF Len(docs) < Len(Plan(request))
              THEN /\ position' = position + 1
                   /\ fetched' = docs
                   /\ UNCHANGED << pc, raised, reply >>
              ELSE LET text == HandlerText(request, docs)
                   IN  IF text.ok
                       THEN /\ reply' = Response(request, TextResult(text.value))
                            /\ pc' = "write"
                            /\ position' = position + 1
                            /\ fetched' = docs
                            /\ UNCHANGED raised
                       ELSE Fail(request, text.message)
    /\ UNCHANGED << POWERPLATFORM_CONFIG, powerplatform_service, now, request,
                    constructed, shapeVars >>

\* handle_request, lines 152 and 161-162: the line read is not a request;
\* the exception becomes an error response
ReadMalformed ==
    /\ pc = "read"
    /\ request' = MalformedLine
    /\ reply' = ErrorResponse(JsonDecodeError)
    /\ raised' = None
    /\ calls' = << >>
    /\ stdout' = << >>
    /\ pc' = "write"
    /\ UNCHANGED << POWERPLATFORM_CONFIG, powerplatform_service, access_token,
                    token_expiration_time, now, position, fetched,
                    last_acquisition, constructed, shapeVars >>

\* McpServer.start, lines 167-169: readline returned the empty string
EndOfFile ==
    /\ pc = "read"
    /\ pc' = "done"
    /\ UNCHANGED << POWERPLATFORM_CONFIG, powerplatform_service, access_token,
                    token_expiration_time, now, request, position, fetched,
                    calls, raised, reply, last_acquisition, stdout,
                    constructed, shapeVars >>

\* the loop goes back to readline; the handler's locals are gone and the
\* lines written belong to the past
BackToRead ==
    /\ pc' = "read"
    /\ request' = NoRequest
    /\ calls' = << >>
    /\ raised' = None
    /\ reply' = NoReply
    /\ stdout' = << >>
    /\ position' = 0
    /\ fetched' = << >>
    /\ UNCHANGED << POWERPLATFORM_CONFIG, powerplatform_service, access_token,
                    token_expiration_time, now, last_acquisition, constructed,
                    shapeVars >>

\* faulty variant: start has no except block, an exception of print leaves it
WriteResponse_Faulty(prints) ==
    /\ pc = "write"
    /\ IF prints
       THEN BackToRead
       ELSE /\ pc' = "raised"
            /\ UNCHANGED << POWERPLATFORM_CONFIG, powerplatform_service,
                            access_token, token_expiration_time, now, request,
                            position, fetched, calls, raised, reply,
                            last_acquisition, stdout, constructed, shapeVars >>

\* McpServer.start, line 172: the response is printed after the lines the
\* service printed; when print raises, the except block of line 173 takes
\* over with the server error to print
WriteResponse(prints) ==
    /\ pc = "write"
    /\ IF prints
       THEN BackToRead
       ELSE /\ pc' = "except"
            /\ reply' = ServerError(BrokenPipe)
            /\ UNCHANGED << POWERPLATFORM_CONFIG, powerplatform_service,
                            access_token, token_expiration_time, now, request,
                            position, fetched, calls, raised, last_acquisition,
                            stdout, constructed, shapeVars >>

\* McpServer.start, line 174: the print of the except block; when it raises
\* too, the exception leaves the loop and start
WriteServerError(prints) ==
    /\ pc = "except"
    /\ IF prints
       THEN BackToRead
       ELSE /\ pc' = "raised"
            /\ UNCHANGED << POWERPLATFORM_CONFIG, powerplatform_service,
                            access_token, token_expiration_time, now, request,
                            position, fetched, calls, raised, reply,
                            last_acquisition, stdout, constructed, shapeVars >>

\* the service method the handler awaits returns, whatever its collaborators
\* answered
ServiceStep ==
    /\ pc = "await"
    /\ \E outcome \in AcquireOutcomes(now) :
         \E http \in HttpOutcomes(Plan(request)[position + 1]) :
             ServiceCall(outcome, http)

Next ==
    \/ Tick
    \/ \E req \in Requests, constructs \in BOOLEAN : HandleRequest(req, constructs)
    \/ ReadMalformed
    \/ EndOfFile
    \/ ServiceStep
    \/ \E prints \in BOOLEAN : WriteResponse(prints)
    \/ \E prints \in BOOLEAN : WriteServerError(prints)

Spec == Init /\ [][Next]_vars

\* the collaborators return and start goes on to its prints
SpecLive ==
    /\ Spec
    /\ WF_vars(ServiceStep)
    /\ WF_vars(\E prints \in BOOLEAN : WriteResponse(prints))
    /\ WF_vars(\E prints \in BOOLEAN : WriteServerError(prints))

(***************************************************************************)
(* Metadata shaping on its own: a service method's post-processing applied *)
(* to every provider document of a bounded family                          *)
(***************************************************************************)
MaxAttributes == 3

MaxRelationships == 3

NotReturned == [ nothing |-> TRUE ]

SeqsUpTo(S, n) == UNION { [ 1..k -> S ] : k \in 0..n }

\* logical names: plain ones, "...name" shadows of them, "...yominame"
\* shadows, the bare suffixes and the empty name
LogicalNames ==
    { "", "a", "name", "aname", "anamename", "namename", "ayomi",
      "ayominame", "ayominamename" }

\* attribute descriptors, one of them without a LogicalName
AttributeInputs ==
    { [ LogicalName |-> n ] : n \in LogicalNames }
    \cup { [ AttributeType |-> "String" ] }

ReferencingEntities ==
    { "account", "msdyn_x", "adx_y", "msdyn", "xadx_", "" }

\* relationship descriptors, one of them without a ReferencingEntity
RelationshipInputs ==
    { [ SchemaName |-> "rel", ReferencingEntity |-> e ] :
        e \in ReferencingEntities }
    \cup { [ SchemaName |-> "rel" ] }

\* a list response: with a value array, or without one
ListDocuments(entries, n) ==
    { [ value |-> v ] : v \in SeqsUpTo(entries, n) }
    \cup { [ error |-> "no value" ], EmptyDict }

\* entity documents over three keys
EntityDocuments ==
    UNION { [ keys -> { "v", "w" } ] :
              keys \in SUBSET { "LogicalName", "Privileges", "SchemaName" } }

ShapeInputs(service_method) ==
    CASE service_method = "get_entity_metadata" -> EntityDocuments
      [] service_method = "get_entity_attributes" ->
            ListDocuments(AttributeInputs, MaxAttributes)
      [] service_method = "get_entity_one_to_many_relationships" ->
            ListDocuments(RelationshipInputs, MaxRelationships)
      [] service_method = "get_entity_many_to_many_relationships" ->
            ListDocuments(RelationshipInputs, MaxRelationships)

ShapingMethods ==
    { "get_entity_metadata", "get_entity_attributes",
      "get_entity_one_to_many_relationships",
      "get_entity_many_to_many_relationships" }

InitShape ==
    /\ POWERPLATFORM_CONFIG =
         [ organization_url |-> OrganizationUrl, client_id |-> "client-id",
           client_secret |-> "client-secret", tenant_id |-> "tenant-id" ]
    /\ powerplatform_service = None
    /\ access_token = None
    /\ token_expiration_time = 0
    /\ now = 0
    /\ pc = "read"
    /\ request = NoRequest
    /\ position = 0
    /\ fetched = << >>
    /\ calls = << >>
    /\ raised = None
    /\ reply = NoReply
    /\ last_acquisition = [ at |-> 0, result |-> EmptyDict ]
    /\ stdout = << >>
    /\ constructed = 0
    /\ method \in ShapingMethods
    /\ provider \in ShapeInputs(method)
    /\ returned = NotReturned

\* the service method returns the shaped document
Returns(service_method) ==
    /\ method = service_method
    /\ returned = NotReturned
    /\ returned' = Shape(service_method, provider)
    /\ UNCHANGED << serverVars, method, provider >>

GetEntityMetadata == Returns("get_entity_metadata")

GetEntityAttributes == Returns("get_entity_attributes")

GetEntityOneToManyRelationships ==
    Returns("get_entity_one_to_many_relationships")

GetEntityManyToManyRelationships ==
    Returns("get_entity_many_to_many_relationships")

NextShape ==
    \/ GetEntityMetadata
    \/ GetEntityAttributes
    \/ GetEntityOneToManyRelationships
    \/ GetEntityManyToManyRelationships

SpecShape == InitShape /\ [][NextShape]_vars

(***************************************************************************)
(* Properties of the dispatcher and the token cache (under Spec)           *)
(***************************************************************************)
\* the handler of the current request has returned
Returned == pc = "write" /\ request # NoRequest

TheText == reply.result.content[1].text

\* the events a step appended to the log of outbound calls
NewCalls == SubSeq(calls', Len(calls) + 1, Len(calls'))

\* a step in which a service method ran make_request
GatewayStep == pc = "await" /\ calls' # calls

\* the identity provider did not deliver a token
Refused(answer) ==
    \/ answer.raises
    \/ DOMAIN answer.result = {}
    \/ "access_token" \notin DOMAIN answer.result

\* C1: a request for one of the 8 registered functions is answered, whatever
\* validation, service construction, token acquisition and the GET did, by a
\* response with a result of exactly one content item of type text and no
\* error field; when something failed the text is the failure message.
C1_KnownFunctionAnswersWithText ==
    (Returned /\ request.function \in RegisteredFunctions) =>
        /\ DOMAIN reply = { "id", "result" }
        /\ DOMAIN reply.result = { "content" }
        /\ Len(reply.result.content) = 1
        /\ reply.result.content[1].type = "text"
        /\ raised # None =>
             /\ DOMAIN TheText = { "str" }
             /\ startswith(TheText.str, "Failed to ")
             /\ endswith(TheText.str, ": " \o raised)

\* C1 witness: a handler whose token acquisition succeeded and whose GET
\* failed has answered with the failure text.
C1_Witness ==
    /\ Returned
    /\ request.function = "get-entity-relationships"
    /\ raised = RequestFailed("Connection refused")
    /\ Len(calls) = 3
    /\ "result" \in DOMAIN reply

\* C2: a request for an unregistered function is answered by an error, not
\* by a result; no handler runs, nothing is acquired or fetched, and the
\* service singleton and the token cache stay as they were.
C2_UnknownFunctionFailsTheCall ==
    [][ (pc = "read" /\ request' \in Requests
            /\ request'.function \notin RegisteredFunctions) =>
          /\ pc' = "write"
          /\ DOMAIN reply' = { "error" }
          /\ raised' = None
          /\ calls' = << >>
          /\ UNCHANGED << powerplatform_service, access_token,
                          token_expiration_time, last_acquisition >> ]_vars

\* C2 witness: an unknown function has been answered while the service
\* exists and holds a token.
C2_Witness ==
    /\ Returned
    /\ request.function \notin RegisteredFunctions
    /\ powerplatform_service # None
    /\ access_token # None
    /\ "error" \in DOMAIN reply

\* C3: after an acquisition at t0 that returned expires_in = E, a gateway
\* call at t < t0 + E - 300 is served the cached token without calling the
\* identity provider, and a call at t > t0 + E - 300 calls it (E = 600:
\* t0 + 299 is served from the cache, t0 + 301 refreshes).
C3_TokenReuseWindow ==
    [][ (/\ GatewayStep
         /\ "access_token" \in DOMAIN last_acquisition.result
         /\ "expires_in" \in DOMAIN last_acquisition.result) =>
          LET limit == last_acquisition.at
                         + last_acquisition.result["expires_in"] - 300
          IN  /\ now < limit =>
                   /\ Len(NewCalls) = 1
                   /\ NewCalls[1].call = "GET"
                   /\ NewCalls[1].token = last_acquisition.result["access_token"]
              /\ now > limit =>
                   NewCalls[1].call = "acquire_token_for_client" ]_vars

\* C3 witness: a token acquired at 0 with expires_in = 600 was served from
\* the cache to the GET of a call made at 299.
C3_Witness ==
    /\ Returned
    /\ now = 299
    /\ last_acquisition = [ at |-> 0,
                            result |-> [ access_token |-> TokenIssuedAt(0),
                                         expires_in |-> 600 ] ]
    /\ Len(calls) = 1
    /\ calls[1].call = "GET"
    /\ calls[1].token = TokenIssuedAt(0)

\* C4: when the identity provider raises, returns nothing or returns a
\* payload without an access token, get_access_token fails, the cached token
\* and expiry are left as they were, and the provider was called once.
C4_FailedAcquisitionLeavesCache ==
    [][ (/\ GatewayStep
         /\ NewCalls[1].call = "acquire_token_for_client"
         /\ Refused(NewCalls[1].answer)) =>
          /\ Len(NewCalls) = 1
          /\ raised' = RequestFailed(AuthenticationFailed)
          /\ pc' = "write"
          /\ UNCHANGED << access_token, token_expiration_time >> ]_vars

\* C4 witness: a refresh of an expired token was refused and the stale
\* token is still in the cache.
C4_Witness ==
    /\ Returned
    /\ Len(calls) = 1
    /\ calls[1].call = "acquire_token_for_client"
    /\ Refused(calls[1].answer)
    /\ access_token = TokenIssuedAt(0)
    /\ token_expiration_time = 300
    /\ now = 301

\* the request lacks an argument its operation requires
LacksRequiredArgument(req) ==
    LET given == DOMAIN req.params \ req.nulls
    IN  CASE req.function \in { "get-entity-metadata", "get-entity-attributes",
                                "get-entity-relationships" } ->
                "entityName" \notin given
          [] req.function = "get-entity-attribute" ->
                { "entityName", "attributeName" } \ given # {}
          [] req.function = "get-global-option-set" ->
                "optionSetName" \notin given
          [] req.function \in { "get-record" } ->
                { "entityNamePlural", "recordId" } \ given # {}
          [] req.function = "query-records" ->
                { "entityNamePlural", "filter" } \ given # {}
          [] req.function = "use-powerplatform-prompt" ->
                \/ { "promptType", "entityName" } \ given # {}
                \/ /\ req.params["promptType"] = "ATTRIBUTE_DETAILS"
                   /\ "attributeName" \notin given
          [] OTHER -> FALSE

\* the message reports a rejected or missing argument
IsValidationFailure(message) ==
    \/ find(message, " validation error for ") > 0
    \/ message = "attributeName is required for ATTRIBUTE_DETAILS prompt"

\* C9: an invocation of a known operation that lacks a required argument
\* ends with a validation failure and issues no network call (neither a
\* token acquisition nor a GET).
C9_MissingArgumentIsValidationFailure ==
    (Returned /\ request.function \in RegisteredFunctions
        /\ LacksRequiredArgument(request)) =>
        /\ IsValidationFailure(raised)
        /\ calls = << >>

\* every argument the operation requires is there and promptType is a kind
HasValidArguments(req) ==
    /\ ~LacksRequiredArgument(req)
    /\ req.function = "use-powerplatform-prompt" =>
          req.params["promptType"] \in PromptType

BlankFields == { f \in Range(ConfigFields) : POWERPLATFORM_CONFIG[f] = "" }

\* C10: with a blank configuration field the process loads, and an operation
\* invoked with valid arguments fails with the configuration error that
\* lists exactly the blank fields; nothing is acquired or fetched.
C10_ConfigurationErrorListsBlankFields ==
    (Returned /\ request.function \in RegisteredFunctions
        /\ HasValidArguments(request) /\ BlankFields # {}) =>
        /\ startswith(raised, "Missing PowerPlatform configuration: ")
        /\ \A f \in Range(ConfigFields) : (find(raised, f) > 0) <=> f \in BlankFields
        /\ calls = << >>
        /\ powerplatform_service = None

\* C10 witness: only client_secret is blank and a valid get-record failed
\* with the configuration error.
C10_Witness ==
    /\ Returned
    /\ request.function = "get-record"
    /\ HasValidArguments(request)
    /\ BlankFields = { "client_secret" }
    /\ find(raised, "client_secret") > 0

(***************************************************************************)
(* Properties of metadata shaping (under SpecShape)                        *)
(***************************************************************************)
\* the service method has returned the shaped form of a list response
ListReturned(service_method) ==
    /\ method = service_method
    /\ returned # NotReturned
    /\ "value" \in DOMAIN provider

\* the logical names that occur in a list response
NamesIn(response) ==
    { response["value"][i]["LogicalName"] :
        i \in { j \in 1..Len(response["value"]) :
                  "LogicalName" \in DOMAIN response["value"][j] } }

HasSuffix(s, suffix) ==
    Len(s) >= Len(suffix) /\ SubSeq(s, Len(s) - Len(suffix) + 1, Len(s)) = suffix

HasPrefix(s, prefix) ==
    Len(s) >= Len(prefix) /\ SubSeq(s, 1, Len(prefix)) = prefix

\* C5: no attribute returned by get_entity_attributes has a logical name
\* ending with yominame.
C5_NoYomiNameReturned ==
    ListReturned("get_entity_attributes") =>
        \A n \in NamesIn(returned) : ~HasSuffix(n, "yominame")

\* C5 witness: the provider's list had a yominame attribute and another one,
\* and a non-empty list was returned.
C5_Witness ==
    /\ ListReturned("get_entity_attributes")
    /\ \E n \in NamesIn(provider) : HasSuffix(n, "yominame")
    /\ Len(returned["value"]) > 0

IsBaseName(X) == ~(HasSuffix(X, "name") /\ Len(X) > 4)

IsExcluded(relationship) ==
    /\ "ReferencingEntity" \in DOMAIN relationship
    /\ \/ HasPrefix(relationship["ReferencingEntity"], "msdyn_")
       \/ HasPrefix(relationship["ReferencingEntity"], "adx_")

\* C7: the one-to-many list returned has no entry whose ReferencingEntity
\* starts with msdyn_ or adx_ and has every other entry in its original
\* order; the many-to-many list is returned as the provider sent it.
C7_RelationshipFiltering ==
    /\ ListReturned("get_entity_one_to_many_relationships") =>
         /\ \A i \in 1..Len(returned["value"]) : ~IsExcluded(returned["value"][i])
         /\ returned["value"] =
              SelectSeq(provider["value"], LAMBDA r : ~IsExcluded(r))
    /\ (method = "get_entity_many_to_many_relationships"
          /\ returned # NotReturned) => returned = provider

\* C7 witness: a one-to-many list with an adx_ entry between two ordinary
\* ones was shaped.
C7_Witness ==
    /\ ListReturned("get_entity_one_to_many_relationships")
    /\ Len(provider["value"]) = 3
    /\ ~IsExcluded(provider["value"][1])
    /\ IsExcluded(provider["value"][2])
    /\ HasPrefix(provider["value"][2]["ReferencingEntity"], "adx_")
    /\ ~IsExcluded(provider["value"][3])
    /\ Len(returned["value"]) = 2

\* C8: the document get_entity_metadata returns has no Privileges key and
\* has every other key of the raw document with its value.
C8_PrivilegesStripped ==
    (method = "get_entity_metadata" /\ returned # NotReturned) =>
        /\ "Privileges" \notin DOMAIN returned
        /\ \A k \in DOMAIN provider \ { "Privileges" } :
              k \in DOMAIN returned /\ returned[k] = provider[k]

\* C8 witness: a document with Privileges and two other keys was shaped.
C8_Witness ==
    /\ method = "get_entity_metadata"
    /\ returned # NotReturned
    /\ DOMAIN provider = { "LogicalName", "Privileges", "SchemaName" }
    /\ DOMAIN returned = { "LogicalName", "SchemaName" }

(***************************************************************************)
(* Properties of the operations and of prompt rendering (under Spec)       *)
(***************************************************************************)
\* the GETs among the outbound calls of the invocation
Gets == SelectSeq(calls, LAMBDA c : c.call = "GET")

\* the token acquisitions among the outbound calls of the invocation
Acquisitions == SelectSeq(calls, LAMBDA c : c.call = "acquire_token_for_client")

\* the handler of the current request obtained the service
ServiceObtained == Returned /\ powerplatform_service # None

\* percent-encoding of the characters a filter holds besides letters
PercentEncoded(s) == replace(replace(s, " ", "%20"), "'", "%27")

\* the maxRecords argument was given as JSON null
MaxRecordsIsNull(req) == "maxRecords" \in req.nulls

\* the $top the caller asked for: the maxRecords given, or the default 50
RequestedTop(req) ==
    IF "maxRecords" \in DOMAIN req.params /\ ~MaxRecordsIsNull(req)
    THEN ToString(req.params["maxRecords"])
    ELSE "50"

\* the path a query-records invocation is to request
QueryPath(req) ==
    req.params["entityNamePlural"] \o "?$filter="
        \o PercentEncoded(req.params["filter"]) \o "&$top=" \o RequestedTop(req)

\* the number of entries of the value array of a document, 0 without one
ValueCount(doc) == IF "value" \in DOMAIN doc THEN Len(doc["value"]) ELSE 0

\* C11: a query-records invocation with valid arguments (maxRecords an
\* integer or omitted) that obtained the service makes one gateway call: at
\* most one token acquisition and one GET, the GET to
\* {entityNamePlural}?$filter={percent-encoded filter}&$top={maxRecords}
\* under api/data/v9.2; on success it returns one text item that reports as
\* record count the length of the value array of the response, 0 without one.
C11_QueryRecordsOneCall ==
    (ServiceObtained /\ request.function = "query-records"
        /\ HasValidArguments(request) /\ ~MaxRecordsIsNull(request)) =>
        /\ Len(calls) >= 1
        /\ Len(Gets) <= 1
        /\ Len(Acquisitions) <= 1
        /\ \A i \in 1..Len(Gets) :
              Gets[i].url = POWERPLATFORM_CONFIG.organization_url
                              \o "/api/data/v9.2/" \o QueryPath(request)
        /\ raised = None =>
              /\ Len(Gets) = 1
              /\ Len(reply.result.content) = 1
              /\ startswith(TheText.str,
                    "Retrieved " \o ToString(ValueCount(TheText.dumps))
                        \o " records from ")

\* C11 witness: the scenario of the specification, answered with the count
\* of a two-entry value array.
C11_Witness ==
    /\ ServiceObtained
    /\ request.function = "query-records"
    /\ raised = None
    /\ Len(Gets) = 1
    /\ Gets[1].url = "https://org.crm.dynamics.com/api/data/v9.2/accounts?$filter=name%20eq%20%27Contoso%27&$top=5"
    /\ TheText.str = "Retrieved 2 records from 'accounts' with filter 'name eq 'Contoso'':\n\n"

\* a use-powerplatform-prompt invocation of the kind has returned its
\* rendered text
Rendered(prompt_type) ==
    /\ ServiceObtained
    /\ request.function = "use-powerplatform-prompt"
    /\ HasValidArguments(request)
    /\ request.params["promptType"] = prompt_type
    /\ raised = None

\* the text holds the string
Contains(text, sub) == find(text, sub) > 0

\* the placeholder of that name is still in the text, unfilled
Unfilled(text, name) == Contains(text, "{" \o name \o "}")

\* C12: the text rendered for ENTITY_OVERVIEW has none of the placeholders
\* entity_details, key_attributes and relationships left unfilled (a token
\* outside the replacement mapping stays as it is).
C12_OverviewPlaceholdersFilled ==
    Rendered("ENTITY_OVERVIEW") =>
        \A name \in { "entity_details", "key_attributes", "relationships" } :
            ~Unfilled(TheText.str, name)

\* the values the handler computed for the placeholders of the prompt kind
ComputedValues(req, docs) ==
    LET entity_name == req.params["entityName"]
        kind == req.params["promptType"]
    IN  CASE kind = "ENTITY_OVERVIEW" ->
                { entity_details(docs[1], entity_name).value,
                  key_attributes(docs[2]),
                  relationships_summary(docs[3], docs[4]) }
          [] kind = "ATTRIBUTE_DETAILS" ->
                { attr_details(docs[1], req.params["attributeName"]).value,
                  "- Data Type: " \o get(docs[1], "AttributeType", "Unknown"),
                  "- Required: " \o RequiredLevel(docs[1]).value,
                  "- Max Length: " \o max_length(docs[1]) }
          [] kind = "QUERY_TEMPLATE" ->
                { "$select=" \o select_fields(docs[2]).value,
                  "&$filter=" \o get(docs[1], "PrimaryNameAttribute", None)
                      \o " eq 'Example'",
                  "&$orderby=" \o get(docs[1], "PrimaryNameAttribute", None)
                      \o " asc",
                  "&$top=50" }
          [] kind = "RELATIONSHIP_MAP" ->
                { one_to_many_primary(docs[1], entity_name),
                  one_to_many_related(docs[1], entity_name),
                  many_to_many_lines(docs[2], entity_name) }

\* the placeholder names of the template of the prompt kind
Placeholders(kind) ==
    CASE kind = "ENTITY_OVERVIEW" ->
            { "entity_details", "key_attributes", "relationships" }
      [] kind = "ATTRIBUTE_DETAILS" ->
            { "attribute_details", "data_type", "required", "max_length" }
      [] kind = "QUERY_TEMPLATE" ->
            { "selected_fields", "filter_conditions", "order_by", "max_records" }
      [] kind = "RELATIONSHIP_MAP" ->
            { "one_to_many_primary", "one_to_many_related", "many_to_many" }

\* C13: for each of the four prompt kinds the text returned by
\* use-powerplatform-prompt holds every value the handler computed, in place
\* of its placeholder: no placeholder of the kind's template is left.
C13_PlaceholdersReplacedByValues ==
    \A kind \in PromptType :
        Rendered(kind) =>
            /\ \A value \in ComputedValues(request, fetched) :
                  Contains(TheText.str, value)
            /\ \A name \in Placeholders(kind) : ~Unfilled(TheText.str, name)

\* the step in which start prints the response to the request it read
ResponseWritten == pc \in { "write", "except" } /\ pc' = "read"

\* C14: one invocation is processed fully before the next request is read:
\* a request is read only when no invocation is in progress, every outbound
\* call belongs to the one request in progress, and for each request read
\* exactly one line, its response, is written to the output.
C14_OneInvocationAtATime ==
    [][ /\ request' # request =>
              \/ /\ request = NoRequest /\ pc = "read" /\ calls = << >>
                 /\ calls' = << >>
              \/ /\ request' = NoRequest /\ ResponseWritten
                 /\ reply # NoReply
        /\ calls' # calls =>
              \/ ResponseWritten
              \/ /\ pc = "await" /\ request' = request /\ request # NoRequest
                 /\ SubSeq(calls', 1, Len(calls)) = calls
        /\ ResponseWritten => Len(stdout) + 1 = 1 ]_vars

(***************************************************************************)
(* Further properties of metadata shaping (under SpecShape)                *)
(***************************************************************************)
ListMethods ==
    { "get_entity_attributes", "get_entity_one_to_many_relationships",
      "get_entity_many_to_many_relationships" }

\* a list method has returned for a provider response without a value array
ReturnedWithoutValue ==
    /\ method \in ListMethods
    /\ returned # NotReturned
    /\ "value" \notin DOMAIN provider

\* C15: when the provider's list response has no value array, each of the
\* three list methods returns (it does not fail) and what it returns is an
\* empty list of entries.
C15_NoValueGivesEmptyList ==
    ReturnedWithoutValue =>
        /\ "value" \in DOMAIN returned
        /\ returned["value"] = << >>

\* the entries of a list at the positions K, in their order
Restrict(list, K) ==
    LET ks == SelectSeq([ i \in 1..Len(list) |-> i ], LAMBDA i : i \in K)
    IN  [ n \in 1..Len(ks) |-> list[ks[n]] ]

\* the logical name of the entry at position i, None without one
NameAt(list, i) ==
    IF "LogicalName" \in DOMAIN list[i] THEN list[i]["LogicalName"] ELSE None

\* the claim lets the entry at position i be dropped: its name ends with
\* yominame, or ends with name, is longer than 4, and another entry that
\* survives the yominame pass has that name without the suffix
MayBeDropped(list, i) ==
    LET n == NameAt(list, i)
    IN  /\ "LogicalName" \in DOMAIN list[i]
        /\ \/ HasSuffix(n, "yominame")
           \/ /\ HasSuffix(n, "name")
              /\ Len(n) > 4
              /\ \E j \in 1..Len(list) :
                    /\ j # i
                    /\ "LogicalName" \in DOMAIN list[j]
                    /\ NameAt(list, j) = SubSeq(n, 1, Len(n) - 4)
                    /\ ~HasSuffix(NameAt(list, j), "yominame")

\* C16: the list get_entity_attributes returns is a subsequence of the
\* provider's list (same order, entries unaltered, nothing added), and every
\* entry left out ends with yominame, or ends with name, is longer than 4
\* characters and has its base name present after the yominame pass.
C16_SubsequenceWithJustifiedDrops ==
    ListReturned("get_entity_attributes") =>
        /\ DOMAIN returned = DOMAIN provider
        /\ \A k \in DOMAIN provider \ { "value" } : returned[k] = provider[k]
        /\ \E K \in SUBSET (1..Len(provider["value"])) :
              /\ returned["value"] = Restrict(provider["value"], K)
              /\ \A i \in (1..Len(provider["value"])) \ K :
                    MayBeDropped(provider["value"], i)

\* C16 witness: of a base attribute between its yominame and its name
\* shadow only the base attribute was returned.
C16_Witness ==
    /\ ListReturned("get_entity_attributes")
    /\ Len(provider["value"]) = 3
    /\ NameAt(provider["value"], 1) = "ayominame"
    /\ NameAt(provider["value"], 2) = "a"
    /\ NameAt(provider["value"], 3) = "aname"
    /\ returned["value"] = << [ LogicalName |-> "a" ] >>

(***************************************************************************)
(* Further properties of the gateway and the operations (under Spec)       *)
(***************************************************************************)
\* the kind of error a message of the gateway stands for: make_request
\* raises a plain Exception, told apart by its text only
ErrorKind(message) ==
    IF startswith(message, "PowerPlatform API request failed: ")
    THEN "ApiError"
    ELSE IF message = "Authentication failed" THEN "AuthenticationError"
    ELSE "Other"

\* C17: a gateway request whose token acquisition fails issues no GET and
\* fails with an authentication error, a kind of error distinct from the
\* ApiError of a non-2xx status or a transport failure.
C17_AuthenticationErrorIsDistinct ==
    [][ (/\ GatewayStep
         /\ NewCalls[1].call = "acquire_token_for_client"
         /\ Refused(NewCalls[1].answer)) =>
          /\ Len(NewCalls) = 1
          /\ raised' # None
          /\ ErrorKind(raised') = "AuthenticationError"
          /\ ErrorKind(raised') # "ApiError" ]_vars

\* the text after the last "=" of the url
TopOf(url) ==
    LET at == { i \in 1..Len(url) : SubSeq(url, i, i) = "=" }
    IN  SubSeq(url, Max(at) + 1, Len(url))

\* C18: the $top of the path a query-records invocation requests is an
\* integer: the maxRecords supplied, or 50 when maxRecords was omitted or
\* given as null.
C18_TopIsAnInteger ==
    (ServiceObtained /\ request.function = "query-records"
        /\ HasValidArguments(request)) =>
        \A i \in 1..Len(Gets) :
            /\ TopOf(Gets[i].url) = RequestedTop(request)
            /\ TopOf(Gets[i].url) \in { ToString(n) : n \in 0..50 }

\* the one-to-many list as the claims describe its shaped form
WithoutInternal(response) ==
    IF "value" \in DOMAIN response
    THEN [ response EXCEPT !["value"] =
             SelectSeq(response["value"], LAMBDA r : ~IsExcluded(r)) ]
    ELSE response

\* the url of a metadata collection of the entity
CollectionUrl(req, collection) ==
    POWERPLATFORM_CONFIG.organization_url
        \o "/api/data/v9.2/EntityDefinitions(LogicalName='"
        \o req.params["entityName"] \o "')/" \o collection \o "?$select="

\* C19: get-entity-relationships fetches the one-to-many relationships of
\* the entity first and its many-to-many relationships second, two GETs and
\* no more, and returns oneToMany: the first response shaped, manyToMany:
\* the second response; when the first fetch fails the second is not issued
\* and the operation fails.
C19_RelationshipsInTwoCalls ==
    (ServiceObtained /\ request.function = "get-entity-relationships"
        /\ HasValidArguments(request)) =>
        /\ Len(Gets) <= 2
        /\ Len(Gets) >= 1 =>
              startswith(Gets[1].url,
                         CollectionUrl(request, "OneToManyRelationships"))
        /\ Len(Gets) = 2 =>
              /\ Gets[1].status = "200"
              /\ startswith(Gets[2].url,
                            CollectionUrl(request, "ManyToManyRelationships"))
        /\ (Len(Gets) = 0 \/ Gets[1].status # "200") => raised # None
        /\ raised = None =>
              /\ Len(Gets) = 2
              /\ TheText.dumps = [ oneToMany |-> WithoutInternal(Gets[1].json),
                                   manyToMany |-> Gets[2].json ]

\* C19 witness: both fetches succeeded and the msdyn_ relationship of the
\* first response is not in the result.
C19_Witness ==
    /\ ServiceObtained
    /\ request.function = "get-entity-relationships"
    /\ raised = None
    /\ Len(Gets) = 2
    /\ Len(Gets[1].json["value"]) = 2
    /\ Len(TheText.dumps.oneToMany["value"]) = 1
    /\ TheText.dumps.manyToMany = Gets[2].json

\* C20: validation comes before the service is obtained, for every
\* operation: an invocation that lacks a required argument (attributeName
\* of ATTRIBUTE_DETAILS included) reports the validation failure, whatever
\* the configuration, and does not construct the service.
C20_ValidationBeforeService ==
    [][ (/\ pc = "read" /\ pc' # "read"
         /\ request'.function \in RegisteredFunctions
         /\ LacksRequiredArgument(request')) =>
          /\ pc' = "write"
          /\ IsValidationFailure(raised')
          /\ UNCHANGED powerplatform_service ]_vars

(***************************************************************************)
(* Properties of the service singleton and of the prompt handler           *)
(* (under Spec)                                                            *)
(***************************************************************************)
\* the step in which a handler asked for the service and did not get it
ConstructionFailed ==
    /\ pc = "read"
    /\ raised' \in { MissingConfigMessage(POWERPLATFORM_CONFIG), MsalClientError }

\* C21: the service is constructed at most once, and only with the four
\* configuration fields non-blank; once set the singleton is never replaced
\* or reset and a later invocation finds its token cache as the earlier one
\* left it, so that a token still valid is reused; a failed construction
\* leaves the singleton unset.
C21_ServiceConstructedOnce ==
    [][ /\ constructed' <= 1
        /\ constructed' # constructed =>
              /\ BlankFields = {}
              /\ powerplatform_service = None
              /\ powerplatform_service' # None
        /\ powerplatform_service # None => UNCHANGED powerplatform_service
        /\ (pc = "read" /\ powerplatform_service # None) =>
              UNCHANGED << access_token, token_expiration_time >>
        /\ (GatewayStep /\ calls = << >> /\ access_token # None
               /\ now < token_expiration_time) =>
              /\ Len(NewCalls) = 1
              /\ NewCalls[1].call = "GET"
              /\ NewCalls[1].token = access_token
        /\ ConstructionFailed =>
              /\ powerplatform_service' = None
              /\ constructed' = constructed ]_vars

\* C21 witness: a later invocation was served, by the one instance, the
\* token an earlier invocation had acquired.
C21_Witness ==
    /\ Returned
    /\ request.function = "get-record"
    /\ constructed = 1
    /\ raised = None
    /\ Len(calls) = 1
    /\ calls[1].call = "GET"
    /\ calls[1].token = access_token

\* what a GET of the prompt handler asks for, told from its url
Fetches(url, req) ==
    LET entity == POWERPLATFORM_CONFIG.organization_url
                    \o "/api/data/v9.2/EntityDefinitions(LogicalName='"
                    \o req.params["entityName"] \o "')"
    IN  IF url = entity THEN "entity metadata"
        ELSE IF startswith(url, entity \o "/Attributes?") THEN "attributes"
        ELSE IF startswith(url, entity \o "/Attributes(LogicalName='")
        THEN "attribute"
        ELSE IF startswith(url, entity \o "/OneToManyRelationships?")
        THEN "one-to-many"
        ELSE IF startswith(url, entity \o "/ManyToManyRelationships?")
        THEN "many-to-many"
        ELSE "other"

\* the gateway calls of each prompt kind, in order
CallsOfKind(kind) ==
    CASE kind = "ENTITY_OVERVIEW" ->
            << "entity metadata", "attributes", "one-to-many", "many-to-many" >>
      [] kind = "ATTRIBUTE_DETAILS" -> << "attribute" >>
      [] kind = "QUERY_TEMPLATE" -> << "entity metadata", "attributes" >>
      [] kind = "RELATIONSHIP_MAP" -> << "one-to-many", "many-to-many" >>

\* a use-powerplatform-prompt invocation with valid arguments has returned
\* after it obtained the service
PromptReturned ==
    /\ ServiceObtained
    /\ request.function = "use-powerplatform-prompt"
    /\ HasValidArguments(request)

SectionOf(text, heading) ==
    LET i == find(text, heading \o "\n")
        rest == SubSeq(text, i + Len(heading) + 1, Len(text))
        j == find(rest, "\n\n")
    IN  IF i = 0 THEN ""
        ELSE IF j = 0 THEN rest
        ELSE SubSeq(rest, 1, j - 1)

\* the section lists the relationships of the list that satisfy the test,
\* each with a bullet, and no other one; it reads None found without any
Lists(section, list, in_section(_)) ==
    /\ \A i \in 1..Len(list) :
          in_section(list[i]) <=>
              Contains(section, "- " \o list[i]["SchemaName"] \o ": ")
    /\ (\A i \in 1..Len(list) : ~in_section(list[i])) => section = "None found"

\* C24: in the text rendered for RELATIONSHIP_MAP every shaped one-to-many
\* relationship is in exactly one of the two one-to-many sections, the
\* section "as Related" when its ReferencingEntity is the requested entity
\* and the section "as Primary" otherwise; every many-to-many relationship
\* is in the many-to-many section; an empty section reads None found.
C24_RelationshipSections ==
    Rendered("RELATIONSHIP_MAP") =>
        LET entity == request.params["entityName"]
            one_to_many == get(fetched[1], "value", << >>)
            many_to_many == get(fetched[2], "value", << >>)
            referencing(r) == get(r, "ReferencingEntity", None) = entity
        IN  /\ Lists(SectionOf(TheText.str, "### One-to-Many Relationships ("
                                  \o entity \o " as Primary)"),
                     one_to_many, LAMBDA r : ~referencing(r))
            /\ Lists(SectionOf(TheText.str, "### One-to-Many Relationships ("
                                  \o entity \o " as Related)"),
                     one_to_many, referencing)
            /\ Lists(SectionOf(TheText.str, "### Many-to-Many Relationships"),
                     many_to_many, LAMBDA r : TRUE)

(***************************************************************************)
(* Further properties of the token cache and the server loop (under Spec)  *)
(***************************************************************************)
\* some acquisition has succeeded, and this is the token of the last one
LastAcquiredToken(acquisition, token) ==
    /\ "access_token" \in DOMAIN acquisition.result
    /\ token = acquisition.result["access_token"]

\* C25: every outbound request is a token acquisition or a GET, and a GET
\* carries as bearer token the token of the most recent successful
\* acquisition, so none is issued before an acquisition succeeded; the
\* cached token is set only to the token of a successful acquisition.
C25_BearerIsLastAcquiredToken ==
    [][ /\ \A i \in 1..Len(NewCalls) :
              /\ NewCalls[i].call \in { "acquire_token_for_client", "GET" }
              /\ NewCalls[i].call = "GET" =>
                    /\ "Authorization" \in DOMAIN NewCalls[i].headers
                    /\ \E token \in { last_acquisition'.result[k] :
                                        k \in DOMAIN last_acquisition'.result
                                                \cap { "access_token" } } :
                          NewCalls[i].headers["Authorization"]
                              = "Bearer " \o token
        /\ access_token' # None =>
              LastAcquiredToken(last_acquisition', access_token') ]_vars

\* C25 witness: after a refresh at 301 a GET carried the new token.
C25_Witness ==
    /\ Returned
    /\ now = 301
    /\ Len(calls) = 2
    /\ calls[1].call = "acquire_token_for_client"
    /\ calls[2].call = "GET"
    /\ calls[2].headers["Authorization"] = "Bearer token@301"
    /\ access_token = TokenIssuedAt(301)

\* the loop of start is running
Looping == pc \in { "read", "await", "write", "except" }

\* the loop of start ends in this step
LoopStops == Looping /\ ~Looping'

\* a request line has been read and its invocation is not over
InProgress == request # NoRequest

\* the response start has to print reports what went wrong: an error for a
\* line that is no request and for an unknown function, the failure text of
\* the handler for a handler that failed
ReportsFailure ==
    /\ reply # NoReply
    /\ request = MalformedLine => DOMAIN reply = { "error" }
    /\ (request \in Requests /\ request.function \notin RegisteredFunctions) =>
          DOMAIN reply = { "error" }
    /\ (request.function \in RegisteredFunctions /\ raised # None) =>
          /\ DOMAIN reply = { "id", "result" }
          /\ endswith(TheText.str, raised)

\* C26 as stated: the loop stops only at end of file; a malformed line, an
\* unknown function, a handler failure and a failed write of a response
\* each lead to a response and back to reading; every request line read
\* gets its response when the collaborators return.
C26_LoopStopsOnlyAtEndOfFile ==
    /\ [][ /\ LoopStops => (pc = "read" /\ pc' = "done")
           /\ pc = "write" => ReportsFailure
           /\ pc = "except" => pc' \in { "except", "read" } ]_vars
    /\ InProgress ~> ~InProgress

\* C26 amended: the loop stops at end of file, and otherwise only when the
\* print of a response and the print of the server error that replaces it
\* both raised; a malformed line and an unknown function lead to an error
\* response, a handler failure to a result with the failure text, a failed
\* print of a response to the server error, and the loop goes back to
\* reading; every request line read gets a response, or the loop has
\* stopped on such a double failure, when the collaborators return.
C26_LoopStopsAtEndOfFileOrFailedPrints ==
    /\ [][ /\ LoopStops =>
                 \/ pc = "read" /\ pc' = "done"
                 \/ /\ pc = "except" /\ pc' = "raised"
                    /\ reply = [ error |-> "Server error: [Errno 32] Broken pipe" ]
           /\ pc = "write" => ReportsFailure
           /\ (pc = "write" /\ pc' # "write") => pc' \in { "read", "except" }
           /\ (pc = "except" /\ pc' = "read") => ~InProgress' ]_vars
    /\ InProgress ~> (~InProgress \/ pc = "raised")

\* C26 witness: the print of a response and the print of the server error
\* both raised, and the loop has stopped with the request unanswered.
C26_Witness ==
    /\ pc = "raised"
    /\ request \in Requests
    /\ reply = ServerError(BrokenPipe)

\* the last accepted acquisition gave a token that lives 300 seconds or
\* less, or a token without expires_in
ShortLived ==
    /\ "access_token" \in DOMAIN last_acquisition.result
    /\ IF "expires_in" \in DOMAIN last_acquisition.result
       THEN last_acquisition.result["expires_in"] <= SafetyMargin
       ELSE TRUE

\* C27: a token acquired with expires_in of 300 seconds or less, or without
\* expires_in, is stored, the stored expiry is never in the future, and
\* every following gateway call starts with a new acquisition.
C27_ShortLivedTokenIsNeverServed ==
    [][ ShortLived =>
          /\ access_token = last_acquisition.result["access_token"]
          /\ token_expiration_time <= now
          /\ ~TokenIsFresh(access_token, token_expiration_time, now)
          /\ GatewayStep => NewCalls[1].call = "acquire_token_for_client" ]_vars

\* C27 witness: within one invocation a token without expires_in was
\* acquired and used, and the next gateway call acquired again, a token
\* with expires_in = 300.
C27_Witness ==
    /\ Returned
    /\ Len(calls) = 4
    /\ calls[1].call = "acquire_token_for_client"
    /\ DOMAIN calls[1].answer.result = { "access_token" }
    /\ calls[2].call = "GET"
    /\ calls[2].token = calls[1].answer.result["access_token"]
    /\ calls[3].call = "acquire_token_for_client"
    /\ calls[4].call = "GET"
    /\ last_acquisition.result =
          [ access_token |-> calls[4].token, expires_in |-> 300 ]

\* the response start holds: the one to print, or the server error that
\* took its place
Responding == pc \in { "write", "except", "raised" }

\* C28: the response to a request for a registered function carries the id
\* of the request next to the result; the error responses, for a line that
\* cannot be parsed, for an unknown function and for an exception caught by
\* start, carry an error and no id.
C28_OnlyResultsCarryTheId ==
    /\ (pc = "write" /\ request.function \in RegisteredFunctions) =>
          /\ DOMAIN reply = { "id", "result" }
          /\ reply.id = request.id
    /\ (Responding /\ request.function \notin RegisteredFunctions) =>
          /\ DOMAIN reply = { "error" }
          /\ "id" \notin DOMAIN reply
    /\ pc \in { "except", "raised" } =>
          /\ DOMAIN reply = { "error" }
          /\ "id" \notin DOMAIN reply

\* C28 witness: the request with id 2 has its result, carrying id 2.
C28_Witness ==
    /\ Returned
    /\ request.function = "get-global-option-set"
    /\ request.id = 2
    /\ DOMAIN reply = { "id", "result" }
    /\ reply.id = 2
    /\ raised = None

\* C29: the attribute shaping is idempotent: the two passes applied to the
\* document get_entity_attributes returned drop nothing further, whatever
\* the input list, with duplicate logical names and with entries that have
\* no logical name.
C29_AttributeShapingIsIdempotent ==
    (method = "get_entity_attributes" /\ returned # NotReturned) =>
        /\ get_entity_attributes_shape(returned) = returned
        /\ HasKey(returned, "value") =>
              /\ FirstPass(returned["value"]) = returned["value"]
              /\ SecondPass(returned["value"]) = returned["value"]

\* C29 witness: of a, aname, anamename the shaping dropped aname and
\* returned a list that still holds a name ending in "name".
C29_Witness ==
    /\ method = "get_entity_attributes"
    /\ returned # NotReturned
    /\ provider = [ value |-> << [ LogicalName |-> "a" ],
                                 [ LogicalName |-> "aname" ],
                                 [ LogicalName |-> "anamename" ] >> ]
    /\ returned = [ value |-> << [ LogicalName |-> "a" ],
                                 [ LogicalName |-> "anamename" ] >> ]

====
